---- MODULE Spec2Model ----
(***************************************************************************)
(* Model of src/app.py: the request pipeline of optimize_portfolio, the    *)
(* process-wide pyplot state it touches, and the Gradio click that starts  *)
(* each request.                                                           *)
(*                                                                         *)
(* Strings are sequences of one-character strings.  Numbers that the code  *)
(* keeps as floats are kept as exact fractions (numerator, denominator) or *)
(* as the token NaN where the float computation yields nan.                *)
(***************************************************************************)
EXTENDS Integers, Sequences, FiniteSets, TLC

VARIABLES
    pc,            \* position of the running request inside optimize_portfolio
    tickers_str,   \* argument of optimize_portfolio (text of ticker_input)
    tickers,       \* local: list built at line 71
    yf_args,       \* ticker list handed to yf.download by this request, or None
    data,          \* local: value of yf.download(...)['Close']
    returns,       \* local: data.pct_change().dropna(), with the model built from it
    solution,      \* local: result object of sco.minimize
    weights,       \* local: loop variable of the sampler after the loop
    weights_df,    \* local: the allocation table
    summary_str,   \* local: the metrics text
    fig,           \* local: the scatter figure
    exc,           \* exception in flight / bound to e in the except clause
    result,        \* value returned to the caller (the three Gradio outputs)
    rcParams,      \* matplotlib's process-wide style (plt.style.use)
    Gcf            \* pyplot's process-wide registry of open figures (their count)

vars == <<pc, tickers_str, tickers, yf_args, data, returns, solution, weights,
          weights_df, summary_str, fig, exc, result, rcParams, Gcf>>

\* ---------------------------------------------------------------- bounds
MaxLen  == 3      \* longest ticker text tried
MaxRows == 3      \* most price rows the provider returns
MaxCols == 2      \* most price columns the provider returns
Grid    == 2      \* uniform[0,1) is sampled at k/Grid, k = 0..Grid-1
MaxFigs == 2      \* a new request is accepted while fewer figures are open

None == "None"
NaN  == "nan"

\* ---------------------------------------------------------------- strings
Alphabet == {"a", "b", " ", ","}

Strings == UNION {[1..n -> Alphabet] : n \in 0..MaxLen}

\* a non-string argument (a direct call with None): .split is an AttributeError
NonStr == <<None>>

IsStr(s) == \A i \in 1..Len(s) : s[i] \in Alphabet

Inputs == Strings \cup {NonStr}

\* str.upper
UpperChar(c) == CASE c = "a" -> "A" [] c = "b" -> "B" [] OTHER -> c

upper(s) == [i \in 1..Len(s) |-> UpperChar(s[i])]

\* str.strip: leading and trailing whitespace removed
RECURSIVE lstrip(_)
lstrip(s) == IF s # <<>> /\ Head(s) = " " THEN lstrip(Tail(s)) ELSE s

RECURSIVE rstrip(_)
rstrip(s) == IF s # <<>> /\ s[Len(s)] = " " THEN rstrip(SubSeq(s, 1, Len(s) - 1)) ELSE s

strip(s) == rstrip(lstrip(s))

\* str.split(','): always at least one piece; '' splits to ['']
RECURSIVE split(_)
split(s) ==
    IF \E i \in 1..Len(s) : s[i] = ","
    THEN LET k == CHOOSE i \in 1..Len(s) : s[i] = "," /\ \A j \in 1..(i - 1) : s[j] # ","
         IN  <<SubSeq(s, 1, k - 1)>> \o split(SubSeq(s, k + 1, Len(s)))
    ELSE <<s>>

\* line 71: [ticker.strip().upper() for ticker in tickers_str.split(',')]
ParseTickers(s) == LET parts == split(s) IN [i \in 1..Len(parts) |-> upper(strip(parts[i]))]

\* line 72: not tickers or tickers_str == ''
TickerListEmpty_NoStringTest(tk, s) == tk = <<>>

TickerListEmpty(tk, s) == tk = <<>> \/ s = <<>>

\* ---------------------------------------------------------------- exceptions
NoExc == [kind |-> "None"]

Raise(type, msg) == [kind |-> "exception", type |-> type, msg |-> msg]

EmptyMsg == "Ticker list cannot be empty."

BadDataMsg == "Could not download valid data for all tickers. Please check the company symbols."

\* classes derived from Exception, among those the pipeline raises
ExceptionSubclasses == {"ValueError", "AttributeError", "TypeError", "KeyError", "RuntimeError"}

\* line 130: except Exception as e
Caught_OnlyValueError(e) == e.type = "ValueError"

Caught(e) == e.type \in ExceptionSubclasses

\* ---------------------------------------------------------------- price data
NoData == [kind |-> "None"]

\* what yf.download(...)['Close'] may hand back: a table (DataFrame) of any
\* shape or a single series; isnull[t][c] is TRUE where the price is missing
DataFrames ==
    UNION {UNION {{[kind |-> "DataFrame", ncols |-> c, nrows |-> r, isnull |-> m] :
                      m \in [1..r -> [1..c -> BOOLEAN]]} : r \in 0..MaxRows} : c \in 0..MaxCols}

SeriesSet ==
    UNION {{[kind |-> "Series", ncols |-> 1, nrows |-> r, isnull |-> m] :
               m \in [1..r -> [1..1 -> BOOLEAN]]} : r \in 0..MaxRows}

ProviderOutputs == DataFrames \cup SeriesSet

\* data.empty
IsEmpty(d) == d.nrows = 0 \/ d.ncols = 0

\* data.isnull().all().all()
AllNull(d) == \A t \in 1..d.nrows : \A c \in 1..d.ncols : d.isnull[t][c]

\* isinstance(data, pd.DataFrame) and data.shape[1] != len(tickers)
ShapeMismatch(d, tk) == d.kind = "DataFrame" /\ d.ncols # Len(tk)

\* line 76: the whole condition
InvalidData(d, tk) == IsEmpty(d) \/ AllNull(d) \/ ShapeMismatch(d, tk)

\* line 79: data.pct_change().dropna(): row t (t >= 2) holds P_t / P_{t-1} - 1,
\* which is missing when either price is; rows with a missing value are dropped
\* (older pandas forward-fills before dividing; an all-missing column and
\* leading gaps stay missing either way)
ValidReturnRows(d) ==
    {t \in 2..d.nrows : \A c \in 1..d.ncols : ~d.isnull[t][c] /\ ~d.isnull[t - 1][c]}

NoReturns == [kind |-> "None"]

\* lines 79-81 on a table: mean() of no rows is nan, cov() of fewer than two
\* rows is nan
PctChangeDropna(d) ==
    [kind |-> d.kind, ncols |-> d.ncols, nrows |-> Cardinality(ValidReturnRows(d))]

MeanDefined(r) == r.nrows >= 1

CovDefined(r) == r.nrows >= 2

\* ---------------------------------------------------------------- numbers
RECURSIVE SumSeq(_)
SumSeq(s) == IF s = <<>> THEN 0 ELSE Head(s) + SumSeq(Tail(s))

NoArray == [kind |-> "None"]

NanArray == [kind |-> NaN]

Array(num, den) == [kind |-> "array", num |-> num, den |-> den]

\* line 92: initial_guess = num_assets * [1. / num_assets]
Uniform(n) == Array([i \in 1..n |-> 1], n)

Vertex(n) == Array([i \in 1..n |-> IF i = 1 THEN n ELSE 0], n)

\* lines 94-95: SLSQP is an opaque solver: it reports success or not and hands
\* back a vector of num_assets weights
SolverResults(n) ==
    {[kind |-> "OptimizeResult", success |-> b, x |-> w] :
        b \in BOOLEAN, w \in {Uniform(n), Vertex(n)}}

NoSolution == [kind |-> "None"]

\* line 102: np.random.random(num_assets), each value k/Grid in [0, 1)
Draws(n) == [1..n -> 0..(Grid - 1)]

\* line 103: weights /= np.sum(weights); 0/0 is nan in numpy (a warning, no raise)
Normalise(u) == LET s == SumSeq(u) IN IF s = 0 THEN NanArray ELSE Array(u, s)

num_portfolios == 10000

\* line 107: f"{w:.2%}": the weight in hundredths of a percent, rounded
FormatPct(num, den) == (20000 * num + den) \div (2 * den)

NoTable == [kind |-> "None"]

EmptyDataFrame == [kind |-> "table", Stock |-> <<>>, Mix |-> <<>>]

WeightsTable(tk, x) ==
    [kind |-> "table", Stock |-> tk,
     Mix |-> [i \in 1..Len(x.num) |-> FormatPct(x.num[i], x.den)]]

NoText == [kind |-> "None"]

\* lines 108-115: the three metrics of the optimal weights; nan when the model is
Summary(x, r) == [kind |-> "metrics", of |-> x, numeric |-> MeanDefined(r) /\ CovDefined(r)]

\* line 131
ErrorMessage(e) == [kind |-> "error", text |-> <<"An error occurred: ", e.msg>>]

NoFig == [kind |-> "None"]

\* a figure: what is drawn on it, the style in force when it was created, and
\* the number pyplot gave it
Figure(content, style, number) ==
    [kind |-> "figure", content |-> content, style |-> style, number |-> number]

\* lines 119-120: the sampled cloud and the one optimal point
ScatterPoints == [cloud |-> num_portfolios, optimal |-> 1]

NoPoints == [cloud |-> 0, optimal |-> 0]

NoResult == [kind |-> "None"]

Triple(f, table, text) == [kind |-> "triple", fig |-> f, table |-> table, text |-> text]

\* ---------------------------------------------------------------- the pipeline
\* pc names the step a request has completed: Idle (no request yet), Received,
\* Normalized, DataFetched, Cleaned, ModelBuilt, Optimized, Sampled, Assembled,
\* Done; Raised (an exception on its way to the except clause), Failed (the
\* except clause returned), Propagated (an exception left the function)

Init ==
    /\ pc = "Idle"
    /\ tickers_str = <<>>
    /\ tickers = <<>>
    /\ yf_args = <<>>
    /\ data = NoData
    /\ returns = NoReturns
    /\ solution = NoSolution
    /\ weights = NoArray
    /\ weights_df = NoTable
    /\ summary_str = NoText
    /\ fig = NoFig
    /\ exc = NoExc
    /\ result = NoResult
    /\ rcParams = "default"
    /\ Gcf = 0

\* the jump into the except clause
Throw(e) == pc' = "Raised" /\ exc' = e

\* optimize_button.click: Gradio calls optimize_portfolio with the text of
\* ticker_input; a fresh frame, the process-wide pyplot state as it was left
Click(s) ==
    /\ pc \in {"Idle", "Done", "Failed"}
    /\ Gcf < MaxFigs
    /\ pc' = "Received"
    /\ tickers_str' = s
    /\ tickers' = <<>>
    /\ yf_args' = <<>>
    /\ data' = NoData
    /\ returns' = NoReturns
    /\ solution' = NoSolution
    /\ weights' = NoArray
    /\ weights_df' = NoTable
    /\ summary_str' = NoText
    /\ fig' = NoFig
    /\ exc' = NoExc
    /\ result' = NoResult
    /\ UNCHANGED <<rcParams, Gcf>>

\* lines 71-73
Normalize ==
    /\ pc = "Received"
    /\ \/ /\ ~IsStr(tickers_str)
          /\ Throw(Raise("AttributeError", "object has no attribute 'split'"))
          /\ UNCHANGED tickers
       \/ /\ IsStr(tickers_str)
          /\ tickers' = ParseTickers(tickers_str)
          /\ IF TickerListEmpty(tickers', tickers_str)
             THEN Throw(Raise("ValueError", EmptyMsg))
             ELSE pc' = "Normalized" /\ UNCHANGED exc
    /\ UNCHANGED <<tickers_str, yf_args, data, returns, solution, weights, weights_df,
                   summary_str, fig, result, rcParams, Gcf>>

\* line 75: the provider is called with the ticker list; it raises (or the
\* frame has no 'Close') or hands back prices of any shape
Download ==
    /\ pc = "Normalized"
    /\ yf_args' = Append(yf_args, tickers)
    /\ \/ /\ Throw(Raise("KeyError", "'Close'"))
          /\ UNCHANGED data
       \/ /\ \E d \in ProviderOutputs : data' = d
          /\ pc' = "DataFetched"
          /\ UNCHANGED exc
    /\ UNCHANGED <<tickers_str, tickers, returns, solution, weights, weights_df,
                   summary_str, fig, result, rcParams, Gcf>>

\* lines 76-79
Validate ==
    /\ pc = "DataFetched"
    /\ IF InvalidData(data, tickers)
       THEN Throw(Raise("ValueError", BadDataMsg)) /\ UNCHANGED returns
       ELSE returns' = PctChangeDropna(data) /\ pc' = "Cleaned" /\ UNCHANGED exc
    /\ UNCHANGED <<tickers_str, tickers, yf_args, data, solution, weights, weights_df,
                   summary_str, fig, result, rcParams, Gcf>>

\* lines 80-82: Series.mean() is a scalar; Series.cov() needs another series
\* and is a TypeError without one
BuildModel ==
    /\ pc = "Cleaned"
    /\ IF returns.kind = "Series"
       THEN Throw(Raise("TypeError", "cov() missing 1 required positional argument: 'other'"))
       ELSE pc' = "ModelBuilt" /\ UNCHANGED exc
    /\ UNCHANGED <<tickers_str, tickers, yf_args, data, returns, solution, weights,
                   weights_df, summary_str, fig, result, rcParams, Gcf>>

num_assets == Len(tickers)

\* lines 84-97: the solver raises, or returns; solution.x is taken whatever
\* solution.success says
Optimize ==
    /\ pc = "ModelBuilt"
    /\ \/ /\ Throw(Raise("ValueError", "minimize failed"))
          /\ UNCHANGED solution
       \/ /\ \E s \in SolverResults(num_assets) : solution' = s
          /\ pc' = "Optimized"
          /\ UNCHANGED exc
    /\ UNCHANGED <<tickers_str, tickers, yf_args, data, returns, weights, weights_df,
                   summary_str, fig, result, rcParams, Gcf>>

optimal_weights == solution.x

\* lines 99-105: num_portfolios draws, each normalised; weights is left holding
\* the last one
Sample ==
    /\ pc = "Optimized"
    /\ \E u \in Draws(num_assets) : weights' = Normalise(u)
    /\ pc' = "Sampled"
    /\ UNCHANGED <<tickers_str, tickers, yf_args, data, returns, solution, weights_df,
                   summary_str, fig, exc, result, rcParams, Gcf>>

\* the point of the code where the table, the summary and the chart are built
AssembleReady_BeforeSampling == pc \in {"Optimized", "Sampled"}

AssembleReady == pc = "Sampled"

\* lines 107-126: table and summary, then the chart through pyplot: the style
\* is set process-wide (117), the figure is registered with pyplot (118), and
\* the drawing calls work on it; a pyplot call may raise at any of these points
Assemble ==
    /\ AssembleReady
    /\ weights_df' = WeightsTable(tickers, optimal_weights)
    /\ summary_str' = Summary(optimal_weights, returns)
    /\ rcParams' = "dark_background"
    /\ \/ /\ Throw(Raise("RuntimeError", "subplots failed"))
          /\ UNCHANGED <<fig, Gcf>>
       \/ /\ fig' = Figure(ScatterPoints, rcParams', Gcf + 1)
          /\ Gcf' = Gcf + 1
          /\ \/ Throw(Raise("RuntimeError", "drawing failed"))
             \/ pc' = "Assembled" /\ UNCHANGED exc
    /\ UNCHANGED <<tickers_str, tickers, yf_args, data, returns, solution, weights, result>>

\* the function's frame ends with the call: its locals are gone, the argument
\* and the calls made to the provider stay on record
FrameDropped ==
    /\ tickers' = <<>>
    /\ data' = NoData
    /\ returns' = NoReturns
    /\ solution' = NoSolution
    /\ weights' = NoArray
    /\ weights_df' = NoTable
    /\ summary_str' = NoText
    /\ fig' = NoFig
    /\ exc' = NoExc

\* line 128
Return ==
    /\ pc = "Assembled"
    /\ result' = Triple(fig, weights_df, summary_str)
    /\ pc' = "Done"
    /\ FrameDropped
    /\ UNCHANGED <<tickers_str, yf_args, rcParams, Gcf>>

\* lines 130-133: a caught exception becomes the placeholder figure (registered
\* with pyplot like any other), an empty table and the message; one that is
\* not caught leaves the function
Except ==
    /\ pc = "Raised"
    /\ IF Caught(exc)
       THEN /\ result' = Triple(Figure(NoPoints, rcParams, Gcf + 1), EmptyDataFrame,
                                ErrorMessage(exc))
            /\ Gcf' = Gcf + 1
            /\ pc' = "Failed"
       ELSE /\ pc' = "Propagated"
            /\ UNCHANGED <<result, Gcf>>
    /\ FrameDropped
    /\ UNCHANGED <<tickers_str, yf_args, rcParams>>

Next ==
    \/ \E s \in Inputs : Click(s)
    \/ Normalize
    \/ Download
    \/ Validate
    \/ BuildModel
    \/ Optimize
    \/ Sample
    \/ Assemble
    \/ Return
    \/ Except

Spec == Init /\ [][Next]_vars

\* ---------------------------------------------------------------- properties
\* the message a request carries: in flight, or in the returned text
Message ==
    IF pc = "Raised" THEN exc.msg
    ELSE IF pc = "Failed" THEN result.text.text[2]
    ELSE ""

InFrame == {"Received", "Normalized", "DataFetched", "Cleaned", "ModelBuilt",
            "Optimized", "Sampled", "Assembled", "Raised"}

C2_EmptyInputFailsBeforeFetch ==
    (tickers_str = <<>> /\ pc \notin {"Idle", "Received"}) =>
        /\ pc \in {"Raised", "Failed"}
        /\ Message = EmptyMsg
        /\ yf_args = <<>>

\* C2 witness: a request with the empty string has failed.
C2_Witness == tickers_str = <<>> /\ pc = "Failed" /\ Message = EmptyMsg

\* a column with no price at all
ColumnMissing(d, c) == \A t \in 1..d.nrows : d.isnull[t][c]

HasMissingColumn(d) == \E c \in 1..d.ncols : ColumnMissing(d, c)

\* a valid Allocation: every weight in [0, 1], weights summing to 1
ValidAllocation(w) ==
    /\ w.kind = "array"
    /\ w.den > 0
    /\ \A i \in 1..Len(w.num) : 0 <= w.num[i] /\ w.num[i] <= w.den
    /\ SumSeq(w.num) = w.den

\* an AssetUniverse: at least one symbol, each trimmed, uppercase and non-empty,
\* none twice
ValidUniverse(tk) ==
    /\ Len(tk) >= 1
    /\ \A i \in 1..Len(tk) : tk[i] # <<>> /\ strip(tk[i]) = tk[i] /\ upper(tk[i]) = tk[i]
    /\ \A i, j \in 1..Len(tk) : tk[i] = tk[j] => i = j

\* a request nothing else is wrong with: a valid ticker list, and a price table
\* with one column per ticker, no missing price and at least 3 rows
CleanRequest ==
    /\ ValidUniverse(tickers)
    /\ data.kind = "DataFrame"
    /\ data.ncols = Len(tickers)
    /\ data.nrows >= 3
    /\ \A t \in 1..data.nrows : \A c \in 1..data.ncols : ~data.isnull[t][c]

\* C3: when the solver reports non-convergence (here in a request nothing else
\* is wrong with, and that no other failure has ended), its weight vector is not
\* used for the table, the summary or the chart.
C3_NonConvergenceFails ==
    (/\ CleanRequest
     /\ solution.kind = "OptimizeResult"
     /\ ~solution.success
     /\ weights # NanArray
     /\ exc = NoExc) =>
        /\ weights_df = NoTable
        /\ summary_str = NoText
        /\ fig = NoFig

\* C4: with fewer than 2 valid return rows a request (here one with a valid
\* ticker list, a price table of the right shape without a missing price, and
\* a converged solver) never reaches optimisation, sampling or assembly.
C4_InsufficientDataFails ==
    (/\ ValidUniverse(tickers)
     /\ pc \in {"Optimized", "Sampled", "Assembled"}
     /\ ~HasMissingColumn(data)
     /\ solution.success) =>
        returns.nrows >= 2

\* C5: price data with an entirely missing column (here fetched for a valid
\* ticker list) fails validation with the data-unavailable message before any
\* returns are computed.
C5_MissingColumnFails ==
    (ValidUniverse(tickers) /\ data.kind # "None" /\ HasMissingColumn(data)) =>
        /\ pc \in {"DataFetched", "Raised"}
        /\ returns = NoReturns
        /\ pc = "Raised" => exc.msg = BadDataMsg

\* C6: a request (here one with a valid ticker list) is past data validation
\* only with as many price columns as parsed tickers.
C6_ColumnsEqualTickers ==
    (ValidUniverse(tickers) /\
     pc \in {"Cleaned", "ModelBuilt", "Optimized", "Sampled", "Assembled"}) =>
        data.ncols = Len(tickers)

\* C7: every ticker list handed to the provider is a valid AssetUniverse.
C7_FetchOnlyValidUniverse ==
    \A k \in 1..Len(yf_args) : ValidUniverse(yf_args[k])

\* the order of the steps of one request
Rank(st) ==
    CASE st = "Received" -> 1 [] st = "Normalized" -> 2 [] st = "DataFetched" -> 3
      [] st = "Cleaned" -> 4 [] st = "ModelBuilt" -> 5 [] st = "Optimized" -> 6
      [] st = "Sampled" -> 7 [] st = "Assembled" -> 8 [] st = "Done" -> 9
      [] OTHER -> 0

StepOrder ==
    pc' # pc =>
        \/ Rank(pc) >= 1 /\ Rank(pc) <= 8 /\ Rank(pc') = Rank(pc) + 1
        \/ Rank(pc) >= 1 /\ Rank(pc) <= 7 /\ pc' = "Raised"
        \/ pc = "Raised" /\ pc' = "Failed"
        \/ pc \in {"Idle", "Done", "Failed"} /\ pc' = "Received"

BothCompleted == solution.kind = "OptimizeResult" /\ weights.kind # "None"

\* C8: the steps of a request occur in order; Assembled is entered only from
\* the point where the optimiser and the sampler have both completed, Done only
\* from Assembled, and a failed request stays failed until the next request.
C8_StepOrder ==
    /\ [][StepOrder]_vars
    /\ [][(pc' = "Assembled" /\ pc # "Assembled") => (pc = "Sampled" /\ BothCompleted)]_vars
    /\ [][(pc' = "Done" /\ pc # "Done") => pc = "Assembled"]_vars
    /\ [][pc = "Failed" => pc' \in {"Failed", "Received"}]_vars

\* C8 witness: a request went through every step to Done.
C8_Witness == pc = "Done" /\ result.text.kind = "metrics" /\ Len(yf_args) = 1

\* C9: a completed request leaves nothing in process-wide state (here a request
\* that returned numbers for a valid ticker list), and the placeholder chart of
\* a request that failed before any chart was built is the same whatever the
\* requests before it.
C9_NoSharedState ==
    /\ (pc = "Done" /\ ValidUniverse(result.table.Stock) /\ result.text.numeric) =>
          Gcf = 0 /\ rcParams = "default"
    /\ (pc = "Failed" /\ Message \in {EmptyMsg, BadDataMsg}) =>
          result.fig.style = "default"

\* C10: every sampled allocation (here in a request nothing else is wrong with,
\* the solver converged) is a valid Allocation: weights in [0, 1] summing to 1,
\* whatever the draw.
C10_SampledAllocationValid ==
    (CleanRequest /\ weights.kind # "None" /\ solution.success) =>
        ValidAllocation(weights)

====
